---------------------------- MODULE Spec2Model ----------------------------
(***************************************************************************)
(* Model of app.py, the Streamlit page of the headshot tool.               *)
(*                                                                         *)
(* The page script runs top to bottom once per browser event (page load,   *)
(* a capture control emitting a value, a press of the generate button).    *)
(* One script run is modelled by ScriptRun; when the button was pressed    *)
(* the run enters run_workflow, which is cut at its three external calls:  *)
(* each of FaceReturn, WardrobeReturn and GenerateReturn is the code that   *)
(* runs from the return of one external call up to the next one.           *)
(* A session takes no browser event while its script is inside             *)
(* run_workflow (the framework's handling of an event during a running     *)
(* script is not part of app.py).                                          *)
(*                                                                         *)
(* retaken is history, not program state: the slots whose Photo the last   *)
(* script run of a session found replaced by another Photo.               *)
(*                                                                         *)
(* Python strings are sequences of tokens: the prompt constants are one    *)
(* token each, model-returned text is a sequence of one-character tokens.  *)
(***************************************************************************)
EXTENDS Naturals, Sequences, FiniteSets

VARIABLES secrets, widget, page, run, retaken

vars == <<secrets, widget, page, run, retaken>>

\* Number of distinct shots a capture control can emit.
MaxShot == 2

\* The browser sessions of the one server process.
Sessions == {"s1", "s2"}

Steps == {1, 2, 3}
KeyNames == <<"photo1", "photo2", "photo3">>

-----------------------------------------------------------------------------
(* Static prompts *)

NODE_01_HEADER == <<"NODE_01_HEADER">>
NODE_02_POSE == <<"NODE_02_POSE">>
NODE_05_LIGHTING == <<"NODE_05_LIGHTING">>
NODE_06_SYSTEM == <<"NODE_06_SYSTEM">>
NODE_03_ANALYSIS_PROMPT == <<"NODE_03_ANALYSIS_PROMPT">>
NODE_04_WARDROBE_PROMPT == <<"NODE_04_WARDROBE_PROMPT">>

\* The text of the f-string template between the interpolated fields.
NL == <<"\n    ">>
SUBJECT_LABEL == <<"SUBJECT DESCRIPTION:">>

\* A local variable that has not been assigned.
Unset == <<"<unset>">>

-----------------------------------------------------------------------------
(* Photos and the camera component *)

\* Python None in place of an image, and the component's default value.
None == [key |-> "None", shot |-> 0]
NoData == [mime |-> "", encoded |-> 0]

\* The data URLs a capture control can emit: shot n, base64-encoded.
DataUrls == {[mime |-> "data:image/jpeg;base64", encoded |-> n] : n \in 1..MaxShot}

\* camera_input(key): the component's value decoded to an Image, or None.
camera_input(key, data_url) ==
    IF data_url.mime # ""
    THEN [key |-> key, shot |-> data_url.encoded]
    ELSE None

\* Truth value of `if photo:` (an Image is truthy, None is falsy).
Truthy(photo) == photo # None

-----------------------------------------------------------------------------
(* The page script: key check, capture sequence, generate button *)

\* "GOOGLE_API_KEY" in st.secrets
HasKey(sec) == "GOOGLE_API_KEY" \in sec

\* The locals photo1, photo2, photo3 of one script run; w is the session's
\* component values by step.
photo1(w) == camera_input(KeyNames[1], w[1])

\* Faulty variant of photo2: the second control is read whatever photo1 is.
photo2Ungated(w) == camera_input(KeyNames[2], w[2])

photo2(w) == IF Truthy(photo1(w)) THEN camera_input(KeyNames[2], w[2]) ELSE None

photo3(w) == IF Truthy(photo2(w)) THEN camera_input(KeyNames[3], w[3]) ELSE None

\* Faulty variant of ExposedSteps: step 3 gated on photo1 instead of photo2.
ExposedStepsSkip(w) ==
    {1} \cup (IF Truthy(photo1(w)) THEN {2, 3} ELSE {})

\* The capture controls the script run puts on the page.
ExposedSteps(w) ==
    {1} \cup (IF Truthy(photo1(w)) THEN {2} ELSE {})
        \cup (IF Truthy(photo2(w)) THEN {3} ELSE {})

\* if photo1 and photo2 and photo3: thumbnails and the generate button.
GenerateOffered(w) == Truthy(photo1(w)) /\ Truthy(photo2(w)) /\ Truthy(photo3(w))

\* Faulty variant of ButtonValue: the button reads as pressed in every run.
ButtonAlways(ev) == TRUE

\* st.button returns True only in the script run its click triggered.
ButtonValue(ev) == ev = "press"

\* The page as one script run with event ev leaves it (run_workflow's own
\* output is kept in run).
StoppedPage(ev) ==
    [rendered |-> TRUE, event |-> ev, config_error |-> TRUE,
     photo |-> <<None, None, None>>, exposed |-> {}, thumbnails |-> <<>>,
     button |-> FALSE, pressed |-> FALSE]

\* Faulty variant of RenderPage: the error is shown but st.stop() is missing.
RenderPageNoStop(sec, w, ev) ==
    [rendered |-> TRUE, event |-> ev, config_error |-> ~HasKey(sec),
     photo |-> <<photo1(w), photo2(w), photo3(w)>>,
     exposed |-> ExposedSteps(w),
     thumbnails |-> IF GenerateOffered(w)
                    THEN <<photo1(w), photo2(w), photo3(w)>> ELSE <<>>,
     button |-> GenerateOffered(w),
     pressed |-> GenerateOffered(w) /\ ButtonValue(ev)]

RenderPage(sec, w, ev) ==
    IF ~HasKey(sec)
    THEN StoppedPage(ev)
    ELSE [rendered |-> TRUE, event |-> ev, config_error |-> FALSE,
          photo |-> <<photo1(w), photo2(w), photo3(w)>>,
          exposed |-> ExposedSteps(w),
          thumbnails |-> IF GenerateOffered(w)
                         THEN <<photo1(w), photo2(w), photo3(w)>> ELSE <<>>,
          button |-> GenerateOffered(w),
          pressed |-> GenerateOffered(w) /\ ButtonValue(ev)]

BlankPage ==
    [rendered |-> FALSE, event |-> "none", config_error |-> FALSE,
     photo |-> <<None, None, None>>, exposed |-> {}, thumbnails |-> <<>>,
     button |-> FALSE, pressed |-> FALSE]

-----------------------------------------------------------------------------
(* External calls *)

\* client.models.generate_content(model='gemini-2.5-flash', contents=[image, prompt])
AnalyzeCall(pil_image, prompt) ==
    [model |-> "gemini-2.5-flash", contents |-> <<pil_image, prompt>>]

\* client.models.generate_content(model='gemini-3-pro-image-preview', ...)
GenerateCall(gen_contents) ==
    [model |-> "gemini-3-pro-image-preview",
     contents |-> gen_contents,
     config |-> [response_modalities |-> <<"IMAGE", "TEXT">>,
                 system_instruction |-> NODE_06_SYSTEM,
                 safety_settings |->
                     <<[category |-> "HARM_CATEGORY_SEXUALLY_EXPLICIT",
                        threshold |-> "BLOCK_ONLY_HIGH"]>>]]

\* What the analysis model can answer: the call raises, the response has no
\* text (response.text is None), or it has one of these texts.
RawTexts == { <<" ">>,
              <<" ", "a", " ", "b", "\n">>,
              <<"b">> }

AnalysisResults ==
    {[ok |-> FALSE, has_text |-> FALSE, text |-> <<>>],
     [ok |-> TRUE, has_text |-> FALSE, text |-> <<>>]}
    \cup {[ok |-> TRUE, has_text |-> TRUE, text |-> t] : t \in RawTexts}

Whitespace == {" ", "\n"}

RECURSIVE LStrip(_)
LStrip(t) ==
    IF t # <<>> /\ Head(t) \in Whitespace THEN LStrip(Tail(t)) ELSE t

RECURSIVE RStrip(_)
RStrip(t) ==
    IF t # <<>> /\ t[Len(t)] \in Whitespace
    THEN RStrip(SubSeq(t, 1, Len(t) - 1)) ELSE t

\* str.strip()
Strip(t) == RStrip(LStrip(t))

\* analyze_image: the stripped response text; raises when the call raises and
\* when response.text is None (None has no strip).
analyze_image(r) ==
    IF r.ok /\ r.has_text
    THEN [raised |-> FALSE, value |-> Strip(r.text)]
    ELSE [raised |-> TRUE, value |-> Unset]

\* What the generation model can answer. A part is text or inline data
\* (inline_data = 0 stands for no inline data, n > 0 for image n).
TextPart == [text |-> "t", inline_data |-> 0]
ImagePart(n) == [text |-> "", inline_data |-> n]
Candidate(parts) == [has_content |-> TRUE, has_parts |-> TRUE, parts |-> parts]
NoContent == [has_content |-> FALSE, has_parts |-> FALSE, parts |-> <<>>]
NoParts == [has_content |-> TRUE, has_parts |-> FALSE, parts |-> <<>>]
Response(cands) ==
    [outcome |-> "response", has_candidates |-> TRUE, candidates |-> cands]
NoCandidates ==
    [outcome |-> "response", has_candidates |-> FALSE, candidates |-> <<>>]
\* generate_content raises instead of returning.
ApiError == [outcome |-> "raise", has_candidates |-> FALSE, candidates |-> <<>>]
\* The generation call has not come back.
NoResponse == [outcome |-> "none", has_candidates |-> FALSE, candidates |-> <<>>]

GenerateResults ==
    { ApiError,
      NoCandidates,
      Response(<<>>),
      Response(<<NoContent>>),
      Response(<<NoParts>>),
      Response(<<Candidate(<<TextPart>>)>>),
      Response(<<Candidate(<<TextPart, ImagePart(1), ImagePart(2)>>)>>),
      Response(<<Candidate(<<TextPart>>), Candidate(<<ImagePart(2), ImagePart(1)>>)>>),
      Response(<<Candidate(<<ImagePart(1)>>), NoContent>>),
      Response(<<NoContent, Candidate(<<ImagePart(1)>>)>>) }

\* Image.open(io.BytesIO(part.inline_data.data))
OpenImage(n) == [key |-> "generated", shot |-> n]

\* for part in candidate.content.parts: if part.inline_data: return ...
\* 0 when no part of the candidate carries inline data.
RECURSIVE ScanParts(_)
ScanParts(parts) ==
    IF parts = <<>> THEN 0
    ELSE IF Head(parts).inline_data # 0 THEN Head(parts).inline_data
    ELSE ScanParts(Tail(parts))

\* for candidate in response.candidates: ... ; a candidate whose content or
\* parts is None raises when it is reached.
RECURSIVE ScanCandidates(_)
ScanCandidates(cands) ==
    IF cands = <<>> THEN [kind |-> "none", image |-> None]
    ELSE IF ~Head(cands).has_content \/ ~Head(cands).has_parts
         THEN [kind |-> "raise", image |-> None]
    ELSE IF ScanParts(Head(cands).parts) # 0
         THEN [kind |-> "image", image |-> OpenImage(ScanParts(Head(cands).parts))]
    ELSE ScanCandidates(Tail(cands))

\* The loop over the response; iterating candidates = None raises.
FirstImage(response) ==
    IF ~response.has_candidates
    THEN [kind |-> "raise", image |-> None]
    ELSE ScanCandidates(response.candidates)

-----------------------------------------------------------------------------
(* run_workflow *)

\* The locals of run_workflow and what it has put on the page, between
\* script runs: pc is the external call in flight ("idle" when none),
\* calls the requests sent so far, analysis_results and response what the
\* analysis calls and the generation call came back with.
RunInit ==
    [pc |-> "idle", started |-> FALSE, returned |-> FALSE, uncaught |-> FALSE,
     images |-> <<>>, face_desc |-> Unset, wardrobe_desc |-> Unset,
     final_prompt |-> Unset, gen_contents |-> <<>>, response |-> NoResponse,
     result_image |-> None, calls |-> <<>>, analysis_results |-> <<>>,
     status |-> "none", written |-> <<>>, status_text |-> FALSE,
     errors |-> <<>>, success |-> FALSE, shown_image |-> None]

\* Faulty variant of primary_image: the second photo is analysed.
primary_imageSecond(images) == images[2]

\* primary_image = images[0]
primary_image(images) == images[1]

\* desc[:60]
Prefix60(desc) == SubSeq(desc, 1, IF Len(desc) < 60 THEN Len(desc) ELSE 60)

\* Faulty variant of final_prompt: the two descriptions change places.
final_promptSwapped(face_desc, wardrobe_desc) ==
    NL \o NODE_01_HEADER \o NL \o NODE_02_POSE \o NL \o SUBJECT_LABEL \o NL
       \o wardrobe_desc \o NL \o face_desc \o NL \o NODE_05_LIGHTING \o NL

\* The f-string of final_prompt.
final_prompt(face_desc, wardrobe_desc) ==
    NL \o NODE_01_HEADER \o NL \o NODE_02_POSE \o NL \o SUBJECT_LABEL \o NL
       \o face_desc \o NL \o wardrobe_desc \o NL \o NODE_05_LIGHTING \o NL

\* Faulty variant of gen_contents: the photos are appended in reverse.
gen_contentsReversed(prompt, images) ==
    <<prompt>> \o [i \in 1..Len(images) |-> images[Len(images) + 1 - i]]

\* gen_contents = [final_prompt]; gen_contents.extend(images)
gen_contents(prompt, images) == <<prompt>> \o images

\* Faulty variant of ButtonHandler: the success message and st.image are
\* outside the `if result_image:` block.
ButtonHandlerAlways(l) ==
    [l EXCEPT !.success = TRUE, !.shown_image = l.result_image]

\* The generate button's handler after run_workflow has returned.
ButtonHandler(l) ==
    IF Truthy(l.result_image)
    THEN [l EXCEPT !.success = TRUE, !.shown_image = l.result_image]
    ELSE l

\* return img, back into the button's handler.
Return(l, img) ==
    ButtonHandler([l EXCEPT !.pc = "idle", !.returned = TRUE, !.result_image = img])

\* Faulty variant of RunWorkflow: both analysis calls are sent at once.
RunWorkflowParallel(images) ==
    [RunInit EXCEPT
        !.pc = "face", !.started = TRUE, !.images = images,
        !.status = "running",
        !.written = <<"Extracting facial features...">>,
        !.calls = <<AnalyzeCall(primary_image(images), NODE_03_ANALYSIS_PROMPT),
                    AnalyzeCall(primary_image(images), NODE_04_WARDROBE_PROMPT)>>]

\* run_workflow up to the face call: client, status box, first st.write.
RunWorkflow(images) ==
    [RunInit EXCEPT
        !.pc = "face", !.started = TRUE, !.images = images,
        !.status = "running",
        !.written = <<"Extracting facial features...">>,
        !.calls = <<AnalyzeCall(primary_image(images), NODE_03_ANALYSIS_PROMPT)>>]

\* Faulty variant of AnalysisExcept: the face call is issued again.
AnalysisExceptRetry(l) ==
    [l EXCEPT !.status = "error",
              !.errors = Append(@, "Analysis error"),
              !.calls = Append(@, AnalyzeCall(primary_image(l.images),
                                              NODE_03_ANALYSIS_PROMPT)),
              !.pc = "face"]

\* except Exception of the analysis block.
AnalysisExcept(l) ==
    Return([l EXCEPT !.status = "error",
                     !.errors = Append(@, "Analysis error")], None)

\* The face description arrived: write it, issue the wardrobe call.
FaceFound(l, desc) ==
    [l EXCEPT
        !.face_desc = desc,
        !.written = @ \o <<"Found:">> \o Prefix60(desc)
                      \o <<"Extracting style & wardrobe...">>,
        !.calls = Append(@, AnalyzeCall(primary_image(l.images),
                                        NODE_04_WARDROBE_PROMPT)),
        !.pc = "wardrobe"]

\* Faulty variant of WardrobeFound: the prompt is composed from the value
\* wardrobe_desc held before this attempt's wardrobe call returned.
WardrobeFoundStale(l, desc) ==
    [l EXCEPT
        !.wardrobe_desc = desc,
        !.written = @ \o <<"Found:">> \o Prefix60(desc),
        !.status = "complete",
        !.final_prompt = final_prompt(l.face_desc, l.wardrobe_desc),
        !.status_text = TRUE,
        !.gen_contents = gen_contents(final_prompt(l.face_desc, l.wardrobe_desc),
                                      l.images),
        !.calls = Append(@, GenerateCall(
                      gen_contents(final_prompt(l.face_desc, l.wardrobe_desc),
                                   l.images))),
        !.pc = "generate"]

\* The wardrobe description arrived: close the status box, compose the
\* prompt, show the progress text, issue the generation call.
WardrobeFound(l, desc) ==
    [l EXCEPT
        !.wardrobe_desc = desc,
        !.written = @ \o <<"Found:">> \o Prefix60(desc),
        !.status = "complete",
        !.final_prompt = final_prompt(l.face_desc, desc),
        !.status_text = TRUE,
        !.gen_contents = gen_contents(final_prompt(l.face_desc, desc), l.images),
        !.calls = Append(@, GenerateCall(
                      gen_contents(final_prompt(l.face_desc, desc), l.images))),
        !.pc = "generate"]

\* Faulty variant of GenerationExcept: the exception leaves run_workflow.
GenerationExceptEscapes(l) ==
    [l EXCEPT !.pc = "idle", !.uncaught = TRUE]

\* except Exception of the generation block.
GenerationExcept(l) ==
    Return([l EXCEPT !.errors = Append(@, "Generation failed")], None)

\* No candidate part carried inline data.
NoImage(l) ==
    Return([l EXCEPT !.errors = Append(@, "The model returned no image")], None)

\* The generation call returned a response: clear the progress text, then
\* the loop over the candidates.
Generated(l, response) ==
    LET m == [l EXCEPT !.response = response, !.status_text = FALSE]
        found == FirstImage(response)
    IN  IF found.kind = "image" THEN Return(m, found.image)
        ELSE IF found.kind = "none" THEN NoImage(m)
        ELSE GenerationExcept(m)

-----------------------------------------------------------------------------
(* State machine *)

Init ==
    /\ secrets \in {{}, {"GOOGLE_API_KEY"}}
    /\ widget = [s \in Sessions |-> [k \in Steps |-> NoData]]
    /\ page = [s \in Sessions |-> BlankPage]
    /\ run = [s \in Sessions |-> RunInit]
    /\ retaken = [s \in Sessions |-> {}]

Idle(s) == run[s].pc = "idle"

\* The slots in which component values w put another Photo in place of the
\* Photo the page of session s holds.
Retaken(s, ev, w) ==
    IF ev = "capture"
    THEN {k \in Steps : /\ Truthy(page[s].photo[k])
                        /\ w[k] # NoData
                        /\ w[k] # widget[s][k]}
    ELSE {}

\* Faulty variant of ScriptRun: the component values are one module-level
\* global, shared by every session.
ScriptRunShared(s, ev, w, keep) ==
    /\ page' = [page EXCEPT ![s] = RenderPage(secrets, w, ev)]
    /\ widget' = [t \in Sessions |->
                    [k \in Steps |->
                        IF keep \/ k \in RenderPage(secrets, w, ev).exposed
                        THEN w[k] ELSE NoData]]
    /\ run' = [run EXCEPT ![s] =
                    IF RenderPage(secrets, w, ev).pressed
                    THEN RunWorkflow(RenderPage(secrets, w, ev).photo)
                    ELSE RunInit]
    /\ retaken' = [retaken EXCEPT ![s] = Retaken(s, ev, w)]
    /\ UNCHANGED secrets

\* One run of the page script in session s for browser event ev, with the
\* component values w. A control the run does not put on the page either
\* keeps its value in the browser or loses it (keep).
ScriptRun(s, ev, w, keep) ==
    /\ page' = [page EXCEPT ![s] = RenderPage(secrets, w, ev)]
    /\ widget' = [widget EXCEPT ![s] =
                    [k \in Steps |->
                        IF keep \/ k \in RenderPage(secrets, w, ev).exposed
                        THEN w[k] ELSE NoData]]
    /\ run' = [run EXCEPT ![s] =
                    IF RenderPage(secrets, w, ev).pressed
                    THEN RunWorkflow(RenderPage(secrets, w, ev).photo)
                    ELSE RunInit]
    /\ retaken' = [retaken EXCEPT ![s] = Retaken(s, ev, w)]
    /\ UNCHANGED secrets

\* The browser opens (or reloads) the page: a fresh session state.
Load(s) ==
    /\ Idle(s)
    /\ ScriptRun(s, "load", [k \in Steps |-> NoData], TRUE)

\* Faulty variant of Capture: a capture in slot k empties the later slots.
CaptureClearsLater(s, k, d, keep) ==
    /\ Idle(s)
    /\ k \in page[s].exposed
    /\ ScriptRun(s, "capture",
                 [j \in Steps |-> IF j = k THEN d
                                  ELSE IF j > k THEN NoData
                                  ELSE widget[s][j]], keep)

\* The capture control of step k emits a data URL, or none.
Capture(s, k, d, keep) ==
    /\ Idle(s)
    /\ k \in page[s].exposed
    /\ ScriptRun(s, "capture", [widget[s] EXCEPT ![k] = d], keep)

\* The user presses the generate button.
PressGenerate(s) ==
    /\ Idle(s)
    /\ page[s].button
    /\ ScriptRun(s, "press", widget[s], TRUE)

\* The face analysis call returns or raises.
FaceReturn(s, r) ==
    /\ run[s].pc = "face"
    /\ run' = [run EXCEPT ![s] =
                 LET l == [run[s] EXCEPT !.analysis_results = Append(@, r)]
                 IN  IF analyze_image(r).raised
                     THEN AnalysisExcept(l)
                     ELSE FaceFound(l, analyze_image(r).value)]
    /\ UNCHANGED <<secrets, widget, page, retaken>>

\* The wardrobe analysis call returns or raises.
WardrobeReturn(s, r) ==
    /\ run[s].pc = "wardrobe"
    /\ run' = [run EXCEPT ![s] =
                 LET l == [run[s] EXCEPT !.analysis_results = Append(@, r)]
                 IN  IF analyze_image(r).raised
                     THEN AnalysisExcept(l)
                     ELSE WardrobeFound(l, analyze_image(r).value)]
    /\ UNCHANGED <<secrets, widget, page, retaken>>

\* The generation call returns or raises.
GenerateReturn(s, r) ==
    /\ run[s].pc = "generate"
    /\ run' = [run EXCEPT ![s] =
                 IF r.outcome = "response"
                 THEN Generated(run[s], r)
                 ELSE GenerationExcept([run[s] EXCEPT !.response = r])]
    /\ UNCHANGED <<secrets, widget, page, retaken>>

\* The steps session s can take, with the capture controls emitting a value
\* of urls, the analysis model answering with one of analysis and the
\* generation model with one of generation.
Step(s, urls, analysis, generation) ==
    \/ Load(s)
    \/ \E k \in Steps, d \in urls, keep \in BOOLEAN : Capture(s, k, d, keep)
    \/ PressGenerate(s)
    \/ \E r \in analysis : FaceReturn(s, r)
    \/ \E r \in analysis : WardrobeReturn(s, r)
    \/ \E r \in generation : GenerateReturn(s, r)

\* One browser session, every input.
Next == Step("s1", DataUrls \cup {NoData}, AnalysisResults, GenerateResults)

Spec == Init /\ [][Next]_vars

\* Every browser session, interleaved, with fewer inputs: a capture control
\* emits no value or one of the session's first shots, an analysis raises or
\* returns one text, a generation raises, returns no image or one image.
\* The first session has two shots to take, so that it can retake a photo
\* with another one; the second session has one.
SessionShots == [s1 |-> 2, s2 |-> 1]

SessionUrls(s) == {NoData} \cup {d \in DataUrls : d.encoded <= SessionShots[s]}

SessionAnalysisResults ==
    {r \in AnalysisResults : ~r.ok \/ (r.has_text /\ Len(r.text) > 1)}

SessionGenerateResults ==
    {ApiError, Response(<<>>), Response(<<Candidate(<<ImagePart(1)>>), NoContent>>)}

NextSessions ==
    \E s \in Sessions :
        Step(s, SessionUrls(s), SessionAnalysisResults, SessionGenerateResults)

SpecSessions == Init /\ [][NextSessions]_vars

-----------------------------------------------------------------------------
(* Properties *)

IsAnalysis(call) == call.model = "gemini-2.5-flash"
IsGeneration(call) == call.model = "gemini-3-pro-image-preview"

\* The calls of session s that satisfy P, as indices into run[s].calls.
CallsWith(s, P(_)) == {i \in 1..Len(run[s].calls) : P(run[s].calls[i])}

IsFaceCall(call) == IsAnalysis(call) /\ call.contents[2] = NODE_03_ANALYSIS_PROMPT
IsWardrobeCall(call) == IsAnalysis(call) /\ call.contents[2] = NODE_04_WARDROBE_PROMPT

\* C1: in every render the capture control of step N (N = 2, 3) is on the
\* page exactly when step N-1 gave a Photo in that render, and step 1's
\* control is on the page whenever the API key is configured.
C1_CaptureGating ==
    \A s \in Sessions :
        page[s].rendered =>
            /\ HasKey(secrets) => 1 \in page[s].exposed
            /\ \A n \in {2, 3} :
                  n \in page[s].exposed <=> Truthy(page[s].photo[n - 1])

\* Photo 1 present and Photo 2 absent: step 2 active, step 3 not.
C1_Witness ==
    \E s \in Sessions :
        /\ page[s].rendered
        /\ Truthy(page[s].photo[1]) /\ ~Truthy(page[s].photo[2])
        /\ page[s].exposed = {1, 2}

\* C2: the generate button is offered only with all three Photos, and
\* run_workflow is entered only in a script run triggered by a press of that
\* button, with exactly three non-empty Photos; a capture never enters it.
C2_GenerateOnlyOnPress ==
    \A s \in Sessions :
        /\ page[s].button => \A k \in Steps : Truthy(page[s].photo[k])
        /\ run[s].started =>
              /\ page[s].event = "press"
              /\ page[s].button
              /\ Len(run[s].images) = 3
              /\ \A k \in Steps : Truthy(run[s].images[k])
        /\ page[s].event = "capture" => ~run[s].started /\ run[s].calls = <<>>

\* The third photo has just been captured: the button is offered and
\* nothing has started.
C2_Witness ==
    \E s \in Sessions :
        /\ page[s].event = "capture"
        /\ page[s].button
        /\ \A k \in Steps : Truthy(page[s].photo[k])
        /\ ~run[s].started

\* An analysis call failed: it raised, or what it returned is no usable
\* description (no text at all, or nothing but whitespace).
AnalysisFailed(r) == ~r.ok \/ ~r.has_text \/ Strip(r.text) = <<>>

\* What the page shows when an attempt was aborted with Analysis error.
AbortedWithAnalysisError(s) ==
    /\ run[s].returned
    /\ run[s].errors = <<"Analysis error">>
    /\ run[s].status = "error"
    /\ ~Truthy(run[s].result_image)
    /\ CallsWith(s, IsGeneration) = {}

\* C3: when the face call or the wardrobe call fails, by raising or by
\* returning unusable text, the attempt is aborted with an analysis error,
\* run_workflow returns no result and no generation call is issued.
C3_AnalysisFailureAborts ==
    \A s \in Sessions :
        \A i \in 1..Len(run[s].analysis_results) :
            AnalysisFailed(run[s].analysis_results[i]) => AbortedWithAnalysisError(s)

\* The part of C3 the code does implement: a call that raises, or a response
\* without text, aborts the attempt, for the face call and the wardrobe call
\* alike.
AnalysisRaiseAborts ==
    \A s \in Sessions :
        \A i \in 1..Len(run[s].analysis_results) :
            analyze_image(run[s].analysis_results[i]).raised
                => AbortedWithAnalysisError(s)

\* The image parts of a candidate, as indices into its parts.
ImagePartsOf(cand) ==
    IF cand.has_content /\ cand.has_parts
    THEN {i \in 1..Len(cand.parts) : cand.parts[i].inline_data # 0}
    ELSE {}

\* The generation call returned, and its response carries no image part.
ZeroImageParts(response) ==
    /\ response.outcome = "response"
    /\ \/ ~response.has_candidates
       \/ \A i \in 1..Len(response.candidates) :
             ImagePartsOf(response.candidates[i]) = {}

\* C4: when the generation call returns with zero image parts, run_workflow
\* returns no result without raising and the page shows the refusal message
\* (not the Generation failed message) and no image.
C4_RefusalReported ==
    \A s \in Sessions :
        ZeroImageParts(run[s].response) =>
            /\ run[s].returned /\ ~run[s].uncaught
            /\ run[s].errors = <<"The model returned no image">>
            /\ ~Truthy(run[s].result_image)
            /\ ~Truthy(run[s].shown_image) /\ ~run[s].success

\* C5: an error raised by the generation call is caught in run_workflow,
\* shown as an error message, and ends the attempt without a result: nothing
\* escapes to the page and no result image is shown.
C5_GenerationErrorCaught ==
    \A s \in Sessions :
        run[s].response.outcome = "raise" =>
            /\ run[s].pc = "idle" /\ run[s].returned /\ ~run[s].uncaught
            /\ run[s].errors = <<"Generation failed">>
            /\ ~Truthy(run[s].result_image)
            /\ ~Truthy(run[s].shown_image) /\ ~run[s].success

\* The generation call was issued and raised.
C5_Witness ==
    \E s \in Sessions :
        /\ CallsWith(s, IsGeneration) # {}
        /\ run[s].response.outcome = "raise"
        /\ run[s].errors # <<>>

\* C6: one press issues at most one face call, one wardrobe call and one
\* generation call; after a failure the attempt is over, and a script run
\* that no press triggered issues no call.
C6_NoRetry ==
    \A s \in Sessions :
        /\ Cardinality(CallsWith(s, IsFaceCall)) <= 1
        /\ Cardinality(CallsWith(s, IsWardrobeCall)) <= 1
        /\ Cardinality(CallsWith(s, IsGeneration)) <= 1
        /\ run[s].errors # <<>> => run[s].pc = "idle" /\ run[s].returned
        /\ run[s].errors = <<"Analysis error">> => CallsWith(s, IsGeneration) = {}
        /\ page[s].event # "press" => run[s].calls = <<>>

\* The wardrobe call failed: two calls were made and the attempt is over.
C6_Witness ==
    \E s \in Sessions :
        /\ run[s].errors = <<"Analysis error">>
        /\ Len(run[s].calls) = 2
        /\ run[s].pc = "idle"

\* C7: without the secret key the page shows the configuration error and
\* stops: no capture control, no generate button, no external call.
C7_NoKeyNoInteraction ==
    ~HasKey(secrets) =>
        \A s \in Sessions :
            /\ page[s].rendered => page[s].config_error
            /\ page[s].exposed = {}
            /\ ~page[s].button /\ ~page[s].pressed
            /\ ~run[s].started /\ run[s].pc = "idle" /\ run[s].calls = <<>>

\* The page was loaded without the key.
C7_Witness ==
    /\ ~HasKey(secrets)
    /\ \E s \in Sessions : page[s].rendered /\ page[s].config_error

\* The positions of token tok in string p.
Positions(p, tok) == {i \in 1..Len(p) : p[i] = tok}

\* String d occurs in p at position i.
OccursAt(p, d, i) ==
    /\ i >= 1 /\ i + Len(d) - 1 <= Len(p)
    /\ SubSeq(p, i, i + Len(d) - 1) = d

\* p holds, each once and in this order, the header, the pose, the subject
\* label and the lighting fragment, and between the label and the lighting
\* fragment first face, whole, and then wardrobe, whole.
InFragmentOrder(p, face, wardrobe) ==
    LET H == Positions(p, NODE_01_HEADER[1])
        Q == Positions(p, NODE_02_POSE[1])
        SL == Positions(p, SUBJECT_LABEL[1])
        LT == Positions(p, NODE_05_LIGHTING[1])
    IN  /\ Cardinality(H) = 1 /\ Cardinality(Q) = 1
        /\ Cardinality(SL) = 1 /\ Cardinality(LT) = 1
        /\ \A h \in H, q \in Q, sl \in SL, lt \in LT :
              /\ h < q /\ q < sl /\ sl < lt
              /\ \E a, b \in (sl + 1)..lt :
                    /\ OccursAt(p, face, a)
                    /\ a + Len(face) <= b
                    /\ OccursAt(p, wardrobe, b)
                    /\ b + Len(wardrobe) <= lt

\* C8: the composed prompt is determined by the two descriptions alone and
\* holds the fragments in the order header, pose, subject label, face
\* description, wardrobe description, lighting, the descriptions verbatim.
C8_PromptOrder ==
    \A s \in Sessions :
        run[s].final_prompt # Unset =>
            /\ run[s].final_prompt =
                  final_prompt(run[s].face_desc, run[s].wardrobe_desc)
            /\ InFragmentOrder(run[s].final_prompt,
                               run[s].face_desc, run[s].wardrobe_desc)

\* A prompt was composed from two different non-empty descriptions.
C8_Witness ==
    \E s \in Sessions :
        /\ run[s].final_prompt # Unset
        /\ run[s].face_desc # <<>> /\ run[s].wardrobe_desc # <<>>
        /\ run[s].face_desc # run[s].wardrobe_desc

\* C9: every analysis call gets the Photo of slot 1 as its image; the Photos
\* of slots 2 and 3 go to no analysis call, only to the generation call.
C9_AnalysisOnPhoto1 ==
    \A s \in Sessions :
        /\ \A i \in CallsWith(s, IsAnalysis) :
              /\ run[s].calls[i].contents[1] = page[s].photo[1]
              /\ run[s].calls[i].contents[1].key = KeyNames[1]
        /\ \A i \in CallsWith(s, IsGeneration) :
              \A k \in {2, 3} :
                  \E j \in 2..Len(run[s].calls[i].contents) :
                      run[s].calls[i].contents[j] = page[s].photo[k]

\* Both analysis calls were made while slot 2 held a different shot.
C9_Witness ==
    \E s \in Sessions :
        /\ CallsWith(s, IsFaceCall) # {} /\ CallsWith(s, IsWardrobeCall) # {}
        /\ page[s].photo[2].shot # page[s].photo[1].shot

\* C10: the contents of the generation request are the composed prompt and
\* then the Photos of slots 1, 2, 3 in that order; the negative-constraints
\* string is the system instruction and no part of the contents.
C10_GenerationRequest ==
    \A s \in Sessions :
        \A i \in CallsWith(s, IsGeneration) :
            LET call == run[s].calls[i] IN
            /\ Len(call.contents) = 4
            /\ call.contents[1] = run[s].final_prompt
            /\ call.contents[1] # Unset
            /\ \A k \in Steps :
                  /\ call.contents[k + 1] = page[s].photo[k]
                  /\ call.contents[k + 1].key = KeyNames[k]
            /\ call.config.system_instruction = NODE_06_SYSTEM
            /\ Positions(call.contents[1], NODE_06_SYSTEM[1]) = {}

\* A generation request was sent with three different-looking slots.
C10_Witness ==
    \E s \in Sessions :
        /\ CallsWith(s, IsGeneration) # {}
        /\ page[s].photo[1].shot # page[s].photo[3].shot

\* The image parts of a response as <<candidate, part>> index pairs.
ImagePartsIn(response) ==
    IF response.outcome = "response" /\ response.has_candidates
    THEN UNION {{<<i, j>> : j \in ImagePartsOf(response.candidates[i])} :
                   i \in 1..Len(response.candidates)}
    ELSE {}

\* Candidate order, then part order.
Before(c, d) == c[1] < d[1] \/ (c[1] = d[1] /\ c[2] <= d[2])

\* C11: when the generation response holds image parts, the result is the
\* first of them in candidate order then part order, whatever else (later
\* image parts, text parts) the response holds.
C11_FirstImageUsed ==
    \A s \in Sessions :
        \A c \in ImagePartsIn(run[s].response) :
            (\A d \in ImagePartsIn(run[s].response) : Before(c, d)) =>
                /\ run[s].returned
                /\ run[s].result_image =
                      OpenImage(run[s].response.candidates[c[1]].parts[c[2]].inline_data)
                /\ run[s].shown_image = run[s].result_image

\* The part of C11 the code does implement: the image run_workflow returns
\* is the first image part of the response.
ReturnedImageIsFirst ==
    \A s \in Sessions :
        Truthy(run[s].result_image) =>
            \E c \in ImagePartsIn(run[s].response) :
                /\ \A d \in ImagePartsIn(run[s].response) : Before(c, d)
                /\ run[s].result_image =
                      OpenImage(run[s].response.candidates[c[1]].parts[c[2]].inline_data)

\* The external calls of session s that have come back (returned or raised).
CallsBack(s) ==
    Len(run[s].analysis_results)
        + (IF run[s].response.outcome = "none" THEN 0 ELSE 1)

\* The external calls of session s still in flight.
InFlight(s) == Len(run[s].calls) - CallsBack(s)

\* C12: the calls of an attempt go out in the order face, wardrobe,
\* generation; the wardrobe call only after the face call has returned
\* without raising, the generation call only after both analyses have, and
\* never more than one call is in flight.
C12_Sequential ==
    \A s \in Sessions :
        /\ Len(run[s].calls) <= 3
        /\ Len(run[s].calls) >= CallsBack(s)
        /\ InFlight(s) <= 1
        /\ InFlight(s) = 1 <=> run[s].pc # "idle"
        /\ Len(run[s].calls) >= 1 => IsFaceCall(run[s].calls[1])
        /\ Len(run[s].calls) >= 2 =>
              /\ IsWardrobeCall(run[s].calls[2])
              /\ Len(run[s].analysis_results) >= 1
              /\ ~analyze_image(run[s].analysis_results[1]).raised
        /\ Len(run[s].calls) >= 3 =>
              /\ IsGeneration(run[s].calls[3])
              /\ Len(run[s].analysis_results) = 2
              /\ ~analyze_image(run[s].analysis_results[2]).raised

\* The generation call is in flight, both analyses are back.
C12_Witness ==
    \E s \in Sessions :
        /\ run[s].pc = "generate"
        /\ Len(run[s].calls) = 3 /\ CallsBack(s) = 2

\* C13: the prompt of a generation call is composed from the two texts the
\* analysis calls of the same attempt returned (trimmed); a script run starts
\* with no description and no prompt, so none is carried over from an earlier
\* attempt.
C13_PromptFromThisAttempt ==
    \A s \in Sessions :
        /\ \A i \in CallsWith(s, IsGeneration) :
              /\ Len(run[s].analysis_results) = 2
              /\ run[s].face_desc = Strip(run[s].analysis_results[1].text)
              /\ run[s].wardrobe_desc = Strip(run[s].analysis_results[2].text)
              /\ run[s].calls[i].contents[1] =
                    final_prompt(Strip(run[s].analysis_results[1].text),
                                 Strip(run[s].analysis_results[2].text))
        /\ run[s].analysis_results = <<>> =>
              /\ run[s].face_desc = Unset /\ run[s].wardrobe_desc = Unset
              /\ run[s].final_prompt = Unset
        /\ Len(run[s].analysis_results) <= 1 =>
              run[s].wardrobe_desc = Unset /\ run[s].final_prompt = Unset

\* A generation call went out on two different descriptions that needed
\* trimming.
C13_Witness ==
    \E s \in Sessions :
        /\ CallsWith(s, IsGeneration) # {}
        /\ run[s].analysis_results[1].text # run[s].face_desc
        /\ run[s].face_desc # run[s].wardrobe_desc

\* This step is a capture that replaces the Photo of slot k in session s by
\* another Photo.
RetakeStep(s, k) ==
    /\ page'[s].event = "capture"
    /\ Truthy(page[s].photo[k]) /\ Truthy(page'[s].photo[k])
    /\ page'[s].photo[k] # page[s].photo[k]

\* C14: retaking one slot leaves the sequencer where it was: the same
\* capture controls are on the page and the generate button is offered, or
\* not, as before.
C14_RetakeKeepsSequencer ==
    [][\A s \in Sessions : \A k \in Steps :
          RetakeStep(s, k) =>
              /\ page'[s].exposed = page[s].exposed
              /\ page'[s].button = page[s].button
              /\ \A j \in Steps \ {k} : page'[s].photo[j] = page[s].photo[j]]_vars

\* Slot 1 has just been retaken while all three slots were filled.
C14_Witness ==
    \E s \in Sessions :
        /\ retaken[s] = {1}
        /\ page[s].event = "capture"
        /\ page[s].button

\* C15: once a generation attempt has finished, with a result image, a
\* refusal or a generation failure, the Generating progress text is gone and
\* the page shows the result image or an error message.
C15_ProgressCleared ==
    \A s \in Sessions :
        (run[s].returned /\ CallsWith(s, IsGeneration) # {}) =>
            /\ ~run[s].status_text
            /\ Truthy(run[s].shown_image) \/ run[s].errors # <<>>

\* The part of C15 the code does implement: the progress text is gone once
\* the generation call has returned a response, and every finished attempt
\* shows the result image or an error message.
ProgressClearedOnResponse ==
    \A s \in Sessions :
        run[s].returned =>
            /\ run[s].response.outcome = "response" => ~run[s].status_text
            /\ Truthy(run[s].shown_image) \/ run[s].errors # <<>>

\* What session t holds: its Photo slots and sequencer state, its
\* descriptions, calls and displayed result.
SessionState(t) == <<widget[t], page[t], run[t]>>

\* C16: a session's Photo slots, sequencer state, descriptions and displayed
\* result change only in a step of that session itself (its load, capture,
\* retake, press, or a call of its own coming back), such a step leaves
\* every other session as it was, and no step changes the API key.
C16_SessionsIndependent ==
    [][/\ secrets' = secrets
       /\ \A t \in Sessions :
             SessionState(t)' # SessionState(t) =>
                 /\ \A u \in Sessions \ {t} : SessionState(u)' = SessionState(u)
                 /\ Step(t, SessionUrls(t), SessionAnalysisResults,
                         SessionGenerateResults)]_vars

\* Two sessions at different points: one shows its result image, the other
\* has filled two slots only.
C16_Witness ==
    \E s, t \in Sessions :
        /\ s # t
        /\ run[s].success /\ Truthy(run[s].shown_image)
        /\ page[t].exposed = {1, 2, 3} /\ ~page[t].button
        /\ ~run[t].started

\* The page of session t comes from a script run that got past the key check.
Rendered(t) == page[t].rendered /\ ~page[t].config_error

\* C17: in every render the filled Photo slots form a prefix (Photo 3 only
\* with Photo 2, Photo 2 only with Photo 1); when the control of an earlier
\* slot yields no Photo, every later slot is absent in that render, whatever
\* its control still holds from an earlier capture; and with a slot absent
\* neither the thumbnails nor the generate button are on the page.
C17_FilledSlotsPrefix ==
    \A s \in Sessions :
        Rendered(s) =>
            /\ \A k \in Steps \ {1} :
                  Truthy(page[s].photo[k]) => Truthy(page[s].photo[k - 1])
            /\ \A k \in Steps :
                  widget[s][k] = NoData =>
                      \A j \in Steps : j >= k => page[s].photo[j] = None
            /\ (\E k \in Steps : ~Truthy(page[s].photo[k])) =>
                  /\ ~page[s].button
                  /\ ~page[s].pressed
                  /\ page[s].thumbnails = <<>>

\* Slot 1 was emptied after slots 2 and 3 had been captured, and their
\* controls still hold the captures: the render treats all three as absent.
C17_Witness ==
    \E s \in Sessions :
        /\ Rendered(s)
        /\ page[s].event = "capture"
        /\ widget[s][1] = NoData
        /\ widget[s][2] # NoData /\ widget[s][3] # NoData
        /\ page[s].photo = <<None, None, None>>
        /\ ~page[s].button

\* The messages run_workflow shows with st.error.
ErrorMessages ==
    {"Analysis error", "Generation failed", "The model returned no image"}

\* The outcomes the attempt of session s has ended in: an error message on
\* the page, or the success message.
Outcomes(s) ==
    {m \in ErrorMessages : \E i \in 1..Len(run[s].errors) : run[s].errors[i] = m}
        \cup (IF run[s].success THEN {"success"} ELSE {})

\* C18: an attempt that has ended has exactly one outcome out of analysis
\* error, generation failure, refusal and success; the success message and
\* the result image are on the page exactly when run_workflow returned an
\* image, otherwise exactly one error message is; an error message and a
\* result image are never on the page together; and before the attempt has
\* ended neither is shown.
C18_OneOutcome ==
    \A s \in Sessions :
        /\ run[s].returned =>
              /\ ~run[s].uncaught
              /\ Cardinality(Outcomes(s)) = 1
              /\ run[s].success <=> Truthy(run[s].result_image)
              /\ run[s].success =>
                    run[s].shown_image = run[s].result_image /\ run[s].errors = <<>>
              /\ ~run[s].success =>
                    Len(run[s].errors) = 1 /\ ~Truthy(run[s].shown_image)
        /\ ~(run[s].errors # <<>> /\ Truthy(run[s].shown_image))
        /\ ~run[s].returned =>
              ~run[s].success /\ ~Truthy(run[s].shown_image) /\ run[s].errors = <<>>

\* An attempt ended in success after all three calls: the image is shown
\* and no error message is.
C18_Witness ==
    \E s \in Sessions :
        /\ run[s].returned /\ Len(run[s].calls) = 3
        /\ Outcomes(s) = {"success"}
        /\ run[s].shown_image = run[s].result_image
        /\ Truthy(run[s].result_image)

\* An attempt ended in each kind of error message.
AnalysisErrorReached == \E s \in Sessions : Outcomes(s) = {"Analysis error"}

GenerationFailureReached == \E s \in Sessions : Outcomes(s) = {"Generation failed"}

RefusalReached == \E s \in Sessions : Outcomes(s) = {"The model returned no image"}


=============================================================================
